---- MODULE Spec2Model ----
(***************************************************************************)
(* A model of the PVTFC static site generator's template engine            *)
(* (build.js: resolvePath, findBlockEnd, render, build) and of the class   *)
(* schedule pager of the generated site (docs/assets/js/main.js).          *)
(*                                                                         *)
(* Template text is modelled by TLA+ strings, character for character, so  *)
(* that the regular expressions of build.js are modelled by what they      *)
(* match.  Indices are 0-based as in JavaScript.                           *)
(***************************************************************************)
EXTENDS Integers, Sequences, FiniteSets, TLC

(***************************************************************************)
(* JavaScript strings                                                      *)
(***************************************************************************)

\* String.prototype.slice(from) for 0 <= from.
Slice(s, from) == IF from >= Len(s) THEN "" ELSE SubSeq(s, from + 1, Len(s))

\* String.prototype.slice(from, to) for 0 <= from, 0 <= to.
SliceTo(s, from, to) ==
    LET e == IF to > Len(s) THEN Len(s) ELSE to
    IN  IF from >= e THEN "" ELSE SubSeq(s, from + 1, e)

\* The character of s at 0-based index i ("" past the end).
CharAt(s, i) == IF i < Len(s) THEN SubSeq(s, i + 1, i + 1) ELSE ""

\* String.prototype.startsWith(p), at index 0 and at index i.
StartsWith(s, p) == Len(s) >= Len(p) /\ SubSeq(s, 1, Len(p)) = p
StartsWithAt(s, i, p) == i + Len(p) <= Len(s) /\ SubSeq(s, i + 1, i + Len(p)) = p

\* The least of a non-empty set of indices, and -1 for the empty set.
Least(S) == CHOOSE k \in S : \A j \in S : k <= j
LeastOrNone(S) == IF S = {} THEN -1 ELSE Least(S)

\* String.prototype.indexOf(p, i): the first 0-based index >= i where p
\* starts, -1 when there is none.
IndexFrom(s, p, i) == LeastOrNone({j \in i..(Len(s) - Len(p)) : StartsWithAt(s, j, p)})
IndexOf(s, p) == IndexFrom(s, p, 0)

\* The regular expression classes \w and \s, [\w.] and [\w.@].
WordChars ==
    {"a","b","c","d","e","f","g","h","i","j","k","l","m","n","o","p","q","r",
     "s","t","u","v","w","x","y","z","A","B","C","D","E","F","G","H","I","J",
     "K","L","M","N","O","P","Q","R","S","T","U","V","W","X","Y","Z","0","1",
     "2","3","4","5","6","7","8","9","_"}
SpaceChars == {" ", "\t", "\n", "\r", "\f"}
PathChars == WordChars \cup {"."}
VarChars == WordChars \cup {".", "@"}

\* The length of the longest run of characters of class cls in s from index i:
\* what a greedy cls* consumes (the classes that follow in the patterns of
\* build.js are disjoint from cls, so backtracking never changes a match).
RECURSIVE Span(_, _, _)
Span(s, i, cls) ==
    IF i < Len(s) /\ CharAt(s, i) \in cls THEN 1 + Span(s, i + 1, cls) ELSE 0

\* Number.prototype.toString for an integer.
Digit(n) == SubSeq("0123456789", n + 1, n + 1)
RECURSIVE NatToString(_)
NatToString(n) == IF n < 10 THEN Digit(n) ELSE NatToString(n \div 10) \o Digit(n % 10)
IntToString(n) == IF n < 0 THEN "-" \o NatToString(-n) ELSE NatToString(n)

\* Whether s is a canonical array index ("0", "1", "10", not "01"), and its value.
IsIndexKey(s) ==
    /\ Len(s) > 0
    /\ \A i \in 0..(Len(s) - 1) : CharAt(s, i) \in {"0","1","2","3","4","5","6","7","8","9"}
    /\ (Len(s) > 1 => CharAt(s, 0) # "0")
DigitValue(c) == CHOOSE n \in 0..9 : Digit(n) = c
RECURSIVE IndexKeyValue(_)
IndexKeyValue(s) ==
    IF Len(s) = 0 THEN 0
    ELSE 10 * IndexKeyValue(SubSeq(s, 1, Len(s) - 1)) + DigitValue(CharAt(s, Len(s) - 1))

(***************************************************************************)
(* JavaScript values: every value is a record [t, v], t the type tag.      *)
(***************************************************************************)
Undefined == [t |-> "undefined", v |-> ""]
Null == [t |-> "null", v |-> ""]
Bool(b) == [t |-> "boolean", v |-> b]
Num(n) == [t |-> "number", v |-> n]
Str(s) == [t |-> "string", v |-> s]
Arr(items) == [t |-> "array", v |-> items]
Obj(fields) == [t |-> "object", v |-> fields]
\* A built-in function object: its name and its length (declared parameters).
Func(name, length) == [t |-> "function", v |-> <<name, length>>]

\* The constructor a value's prototype chain leads to.
ConstructorName(val) ==
    CASE val.t = "string" -> "String"
      [] val.t = "number" -> "Number"
      [] val.t = "boolean" -> "Boolean"
      [] val.t = "array" -> "Array"
      [] val.t = "function" -> "Function"
      [] OTHER -> "Object"

\* A property found on the prototype chain (of the properties every value
\* inherits, constructor and toString are modelled), undefined otherwise.
InheritedProperty(val, key) ==
    CASE key = "constructor" -> Func(ConstructorName(val), 1)
      [] key = "toString" -> Func("toString", IF val.t = "number" THEN 1 ELSE 0)
      [] OTHER -> Undefined

\* acc[key] for a value acc that is neither undefined nor null: an own
\* property first, then the prototype chain.
GetProperty(acc, key) ==
    CASE acc.t = "object" ->
            IF key \in DOMAIN acc.v THEN acc.v[key] ELSE InheritedProperty(acc, key)
      [] acc.t = "array" ->
            IF key = "length" THEN Num(Len(acc.v))
            ELSE IF IsIndexKey(key) /\ IndexKeyValue(key) < Len(acc.v)
                 THEN acc.v[IndexKeyValue(key) + 1]
            ELSE InheritedProperty(acc, key)
      [] acc.t = "string" ->
            IF key = "length" THEN Num(Len(acc.v))
            ELSE IF IsIndexKey(key) /\ IndexKeyValue(key) < Len(acc.v)
                 THEN Str(CharAt(acc.v, IndexKeyValue(key)))
            ELSE InheritedProperty(acc, key)
      [] acc.t = "function" ->
            IF key = "length" THEN Num(acc.v[2])
            ELSE IF key = "name" THEN Str(acc.v[1])
            ELSE InheritedProperty(acc, key)
      [] OTHER -> InheritedProperty(acc, key)

\* ToBoolean: what `val ? a : b` and `!val` test.
\* A variant of Truthy in which an empty array is falsy, as it is in the
\* template languages this one resembles.
TruthyEmptyArrayFalsy(val) ==
    CASE val.t = "undefined" -> FALSE
      [] val.t = "null" -> FALSE
      [] val.t = "boolean" -> val.v
      [] val.t = "number" -> val.v # 0
      [] val.t = "string" -> val.v # ""
      [] val.t = "array" -> val.v # <<>>
      [] OTHER -> TRUE

Truthy(val) ==
    CASE val.t = "undefined" -> FALSE
      [] val.t = "null" -> FALSE
      [] val.t = "boolean" -> val.v
      [] val.t = "number" -> val.v # 0
      [] val.t = "string" -> val.v # ""
      [] OTHER -> TRUE

\* String(val).  An array is its elements joined by ",", undefined and null
\* elements giving the empty string.
RECURSIVE JsString(_)
RECURSIVE JoinFrom(_, _)
JoinFrom(items, i) ==
    IF i > Len(items) THEN ""
    ELSE (IF i > 1 THEN "," ELSE "")
         \o (IF items[i].t \in {"undefined", "null"} THEN "" ELSE JsString(items[i]))
         \o JoinFrom(items, i + 1)
JsString(val) ==
    CASE val.t = "undefined" -> "undefined"
      [] val.t = "null" -> "null"
      [] val.t = "boolean" -> IF val.v THEN "true" ELSE "false"
      [] val.t = "number" -> IntToString(val.v)
      [] val.t = "string" -> val.v
      [] val.t = "array" -> JoinFrom(val.v, 1)
      [] val.t = "function" -> "function " \o val.v[1] \o "() { [native code] }"
      [] OTHER -> "[object Object]"

(***************************************************************************)
(* resolvePath                                                             *)
(***************************************************************************)

\* dotPath.split('.'): the segments between the dots, empty ones included.
RECURSIVE Split(_)
Split(dotPath) ==
    LET dot == IndexOf(dotPath, ".")
    IN  IF dot = -1 THEN <<dotPath>>
        ELSE <<SliceTo(dotPath, 0, dot)>> \o Split(Slice(dotPath, dot + 1))

\* The reducer of resolvePath.
ResolveStep(acc, key) ==
    IF acc.t = "undefined" \/ acc.t = "null" THEN Str("") ELSE GetProperty(acc, key)

\* keys.reduce(ResolveStep, acc), from the i-th key on.
RECURSIVE Reduce(_, _, _)
Reduce(keys, i, acc) ==
    IF i > Len(keys) THEN acc ELSE Reduce(keys, i + 1, ResolveStep(acc, keys[i]))

resolvePath(obj, dotPath) == Reduce(Split(dotPath), 1, obj)

(***************************************************************************)
(* findBlockEnd                                                            *)
(***************************************************************************)

\* The alternatives (tag|if|each|unless) of openPattern and closePattern.
\* A variant of Kinds in which each pattern knows its own tag only.
KindsOwn(tag) == <<tag, tag, tag, tag>>

Kinds(tag) == <<tag, "if", "each", "unless">>

\* The length of the match of openPattern, \{\{#(?:tag|if|each|unless)\s, at
\* index i of s; 0 when it does not match there.
OpenAt(s, i, tag) ==
    IF ~StartsWithAt(s, i, "{{#") THEN 0
    ELSE LET hits == {k \in 1..4 :
                        /\ StartsWithAt(s, i + 3, Kinds(tag)[k])
                        /\ CharAt(s, i + 3 + Len(Kinds(tag)[k])) \in SpaceChars}
         IN  IF hits = {} THEN 0
             ELSE 3 + Len(Kinds(tag)[CHOOSE k \in hits : \A j \in hits : k <= j]) + 1

\* The length of the match of closePattern, \{\{/(tag|if|each|unless)\}\}, at
\* index i of s; 0 when it does not match there.
CloseAt(s, i, tag) ==
    IF ~StartsWithAt(s, i, "{{/") THEN 0
    ELSE LET hits == {k \in 1..4 : StartsWithAt(s, i + 3, Kinds(tag)[k] \o "}}")}
         IN  IF hits = {} THEN 0
             ELSE 3 + Len(Kinds(tag)[CHOOSE k \in hits : \A j \in hits : k <= j]) + 2

\* remaining.match(openPattern): the leftmost match as [index, length], index -1
\* for null.
MatchOpenAt(s, i, tag) ==
    IF i = -1 THEN [index |-> -1, length |-> 0]
    ELSE [index |-> i, length |-> OpenAt(s, i, tag)]
MatchOpenFrom(s, i, tag) ==
    MatchOpenAt(s, LeastOrNone({j \in i..(Len(s) - 1) : OpenAt(s, j, tag) > 0}), tag)
MatchOpen(s, tag) == MatchOpenFrom(s, 0, tag)

\* remaining.match(closePattern), likewise.
MatchCloseAt(s, i, tag) ==
    IF i = -1 THEN [index |-> -1, length |-> 0]
    ELSE [index |-> i, length |-> CloseAt(s, i, tag)]
MatchCloseFrom(s, i, tag) ==
    MatchCloseAt(s, LeastOrNone({j \in i..(Len(s) - 1) : CloseAt(s, j, tag) > 0}), tag)
MatchClose(s, tag) == MatchCloseFrom(s, 0, tag)

\* How far an opening match moves pos, and how far a closing match that leaves
\* depth > 0 does.
OpenAdvance(openMatch) == openMatch.index + openMatch.length
CloseAdvance(closeMatch) == closeMatch.index + closeMatch.length

\* The body of the while loop of findBlockEnd once both matches are made.  exit
\* is "break" (no closing tag is left), "return" (depth reached 0: body and
\* rest are the result) or "continue".
ScanDecide(content, depth, pos, openMatch, closeMatch) ==
    IF closeMatch.index = -1
    THEN [exit |-> "break", depth |-> depth, pos |-> pos, body |-> "", rest |-> ""]
    ELSE IF openMatch.index # -1 /\ openMatch.index < closeMatch.index
    THEN [exit |-> "continue", depth |-> depth + 1,
          pos |-> pos + OpenAdvance(openMatch), body |-> "", rest |-> ""]
    ELSE IF depth - 1 = 0
    THEN [exit |-> "return", depth |-> 0, pos |-> pos,
          body |-> SliceTo(content, 0, pos + closeMatch.index),
          rest |-> Slice(content, pos + closeMatch.index + closeMatch.length)]
    ELSE [exit |-> "continue", depth |-> depth - 1,
          pos |-> pos + CloseAdvance(closeMatch), body |-> "", rest |-> ""]

\* One iteration of the while loop of findBlockEnd, entered with depth > 0 and
\* pos < content.length.
ScanIteration(content, tag, depth, pos) ==
    ScanDecide(content, depth, pos,
               MatchOpen(Slice(content, pos), tag), MatchClose(Slice(content, pos), tag))

\* A variant of ScanFallback that gives the block no body.
ScanFallbackEmpty(content) == [body |-> "", rest |-> content, found |-> FALSE]

\* The result when the loop ends without a return.
ScanFallback(content) == [body |-> content, rest |-> "", found |-> FALSE]

\* The while loop of findBlockEnd from (depth, pos).  found tells the return
\* inside the loop from the fallback after it.
RECURSIVE ScanLoop(_, _, _, _)
ScanAfter(content, tag, it) ==
    CASE it.exit = "break" -> ScanFallback(content)
      [] it.exit = "return" -> [body |-> it.body, rest |-> it.rest, found |-> TRUE]
      [] OTHER -> ScanLoop(content, tag, it.depth, it.pos)
ScanLoop(content, tag, depth, pos) ==
    IF ~(depth > 0 /\ pos < Len(content)) THEN ScanFallback(content)
    ELSE ScanAfter(content, tag, ScanIteration(content, tag, depth, pos))

findBlockEnd(content, tag) == ScanLoop(content, tag, 1, 0)

(***************************************************************************)
(* render: the tag patterns                                                *)
(***************************************************************************)

\* A match of one of the tag patterns: ok, the captured group, the length of
\* the whole match.
TagMatch(remaining, ok, from, to, length) ==
    [ok |-> ok,
     group |-> IF ok THEN SliceTo(remaining, from, to) ELSE "",
     length |-> IF ok THEN length ELSE 0]

\* remaining.match(/^\{\{>\s*(\w+)\s*\}\}/), given what \s*, \w+ and \s* take.
PartialMatchSpans(remaining, sp1, w, sp2) ==
    TagMatch(remaining,
             /\ StartsWith(remaining, "{{>")
             /\ w >= 1
             /\ StartsWithAt(remaining, 3 + sp1 + w + sp2, "}}"),
             3 + sp1, 3 + sp1 + w, 3 + sp1 + w + sp2 + 2)
PartialMatchAfter(remaining, sp1, w) ==
    PartialMatchSpans(remaining, sp1, w, Span(remaining, 3 + sp1 + w, SpaceChars))
PartialMatchFrom(remaining, sp1) ==
    PartialMatchAfter(remaining, sp1, Span(remaining, 3 + sp1, WordChars))
PartialMatch(remaining) == PartialMatchFrom(remaining, Span(remaining, 3, SpaceChars))

\* remaining.match(/^\{\{#kind\s+([\w.]+)\}\}/) for kind each, if, unless, given
\* what \s+ and [\w.]+ take.
BlockMatchSpans(remaining, kind, sp, w) ==
    TagMatch(remaining,
             /\ StartsWith(remaining, "{{#" \o kind)
             /\ sp >= 1
             /\ w >= 1
             /\ StartsWithAt(remaining, 3 + Len(kind) + sp + w, "}}"),
             3 + Len(kind) + sp, 3 + Len(kind) + sp + w, 3 + Len(kind) + sp + w + 2)
BlockMatchFrom(remaining, kind, sp) ==
    BlockMatchSpans(remaining, kind, sp, Span(remaining, 3 + Len(kind) + sp, PathChars))
BlockMatch(remaining, kind) ==
    BlockMatchFrom(remaining, kind, Span(remaining, 3 + Len(kind), SpaceChars))

\* remaining.match(/^\{\{([\w.@]+)\}\}/), given what [\w.@]+ takes.
VarMatchSpan(remaining, w) ==
    TagMatch(remaining,
             /\ StartsWith(remaining, "{{")
             /\ w >= 1
             /\ StartsWithAt(remaining, 2 + w, "}}"),
             2, 2 + w, 2 + w + 2)
VarMatch(remaining) == VarMatchSpan(remaining, Span(remaining, 2, VarChars))

(***************************************************************************)
(* render: the {{else}} split of an if block                               *)
(***************************************************************************)

\* Whether /^\{\{\/(if|each|unless)\}\}/ matches body.slice(i).
ClosingTagAt(body, i) ==
    /\ StartsWithAt(body, i, "{{/")
    /\ \E kind \in {"if", "each", "unless"} : StartsWithAt(body, i + 3, kind \o "}}")

\* Whether body.slice(i) makes the split loop raise its depth.
RaisesElseDepth(body, i) == StartsWithAt(body, i, "{{#")

\* The depth of the split loop at index i, after its two updates, when it
\* entered the iteration with depth.
ElseDepthAt(body, i, depth) ==
    depth + (IF RaisesElseDepth(body, i) THEN 1 ELSE 0)
          - (IF ClosingTagAt(body, i) THEN 1 ELSE 0)

\* The index at which the split loop breaks, -1 when it runs to the end.  An
\* iteration at an index where no {{ starts passes none of the three tests:
\* it leaves depth as it is and does not break.  The loop is stepped from one
\* {{ to the next.
RECURSIVE ElseIndexFrom(_, _, _)
ElseIndexAt(body, i, depth) ==
    IF depth = 0 /\ StartsWithAt(body, i, "{{else}}") THEN i
    ELSE ElseIndexFrom(body, i + 1, depth)
ElseIndexNext(body, i, depth) ==
    IF i = -1 THEN -1 ELSE ElseIndexAt(body, i, ElseDepthAt(body, i, depth))
ElseIndexFrom(body, i, depth) == ElseIndexNext(body, IndexFrom(body, "{{", i), depth)
ElseIndex(body) == ElseIndexFrom(body, 0, 0)

\* ifBody and elseBody, for the index the split loop broke at.
SplitAt(body, i) ==
    IF i = -1 THEN [ifBody |-> body, elseBody |-> ""]
    ELSE [ifBody |-> SliceTo(body, 0, i), elseBody |-> Slice(body, i + Len("{{else}}"))]
SplitElse(body) == SplitAt(body, ElseIndex(body))

(***************************************************************************)
(* render                                                                  *)
(*                                                                         *)
(* The calls of render in progress are the frames of the call stack, the   *)
(* running call last.  A frame holds the parameter context of its call and *)
(* its locals: remaining and output, and of the iteration it is in body,   *)
(* rest, ifBody, elseBody, the array arr of an each block, the index its   *)
(* callback is at and mapped, what the callbacks have returned so far, in  *)
(* order.  at is the position of the call: "loop" at the head of the while *)
(* loop, "return" at return output after the break, and "partial", "each", *)
(* "if" or "unless" inside the call of render that branch makes.  entered  *)
(* is remaining as the iteration in progress found it, and iterations      *)
(* counts the iterations the call has completed.  The call stack has room  *)
(* for MaxCallDepth frames of render.                                      *)
(***************************************************************************)
MaxCallDepth == 6

\* A variant of itemContext whose @last counts from one.
itemContextLastFromOne(context, item, index, length) ==
    Obj([k \in DOMAIN context.v \cup {"this", "@index", "@first", "@last"} |->
            CASE k = "this" -> item
              [] k = "@index" -> Num(index)
              [] k = "@first" -> Bool(index = 0)
              [] k = "@last" -> Bool(index = length)
              [] OTHER -> context.v[k]])

\* The context one iteration of an each block renders its body with:
\* { ...context, this: item, '@index': index, '@first': ..., '@last': ... }.
itemContext(context, item, index, length) ==
    Obj([k \in DOMAIN context.v \cup {"this", "@index", "@first", "@last"} |->
            CASE k = "this" -> item
              [] k = "@index" -> Num(index)
              [] k = "@first" -> Bool(index = 0)
              [] k = "@last" -> Bool(index = length - 1)
              [] OTHER -> context.v[k]])

\* A variant of EnclosingContext: what an assignment of the four names to the
\* context object itself, in place of the spread, would leave in it.
AssignedContext(context, item, index, length) ==
    Obj([k \in DOMAIN context.v \cup {"this", "@index", "@first", "@last"} |->
            CASE k = "this" -> item
              [] k = "@index" -> Num(index)
              [] k = "@first" -> Bool(index = 0)
              [] k = "@last" -> Bool(index = length - 1)
              [] OTHER -> context.v[k]])

\* The enclosing context object after itemContext was built from it: the
\* spread copies into a fresh object and writes nothing to context.
EnclosingContext(context, item, index, length) == context

\* partials[name].
LookupPartial(partials, name) == GetProperty(partials, name)

\* What the "not recognized" branch consumes of remaining.
UnrecognizedLength == 2

\* The frame of a call of render as it is entered: output = '' and
\* remaining = template.
Activation(template, context) ==
    [remaining |-> template, output |-> "", context |-> context,
     body |-> "", rest |-> "", ifBody |-> "", elseBody |-> "",
     arr |-> <<>>, index |-> 0, mapped |-> "",
     at |-> "loop", entered |-> "", iterations |-> 0]

\* The running call, and the stack with its frame replaced.
Active(stack) == stack[Len(stack)]
Replace(stack, f) == [stack EXCEPT ![Len(stack)] = f]

\* What a step leaves: the stack, and the error it threw ("" for none).
Go(stack) == [stack |-> stack, exit |-> ""]
Throws(stack, e) == [stack |-> stack, exit |-> e]

\* Whether a value that is no string makes the loop condition
\* remaining.length > 0 hold.
HasPositiveLength(length) == length.t = "number" /\ length.v > 0

\* render(template, context, partials), called by the running call, whose
\* frame is caller from then on.  template is a JavaScript value: the text of
\* a block body or of a partial, or whatever else partials[name] yielded.  The
\* call throws a RangeError when the stack is full.  A value other than a
\* string has no indexOf: with a length > 0 the loop is entered and the call
\* of remaining.indexOf throws a TypeError; without one the loop is not
\* entered and the call returns '', as a call with nothing to render does.
render(stack, caller, template, context) ==
    IF Len(stack) >= MaxCallDepth THEN Throws(Replace(stack, caller), "RangeError")
    ELSE IF template.t = "string"
    THEN Go(Append(Replace(stack, caller), Activation(template.v, context)))
    ELSE IF HasPositiveLength(GetProperty(template, "length"))
    THEN Throws(Replace(stack, caller), "TypeError")
    ELSE Go(Append(Replace(stack, caller), Activation("", context)))

\* Lines 119-120: the text before the tag is appended and sliced off.
AtTag(f, tagIdx) ==
    [f EXCEPT !.output = @ \o SliceTo(f.remaining, 0, tagIdx),
              !.remaining = Slice(@, tagIdx),
              !.entered = f.remaining]

\* The iteration is over (continue, or the end of the loop body): the loop
\* goes on with remaining = rest.
Continue(f, rest) ==
    [f EXCEPT !.remaining = rest, !.at = "loop", !.iterations = @ + 1]

\* Lines 112-115: no tag is left, the rest is appended and the loop broken.
TextBranch(f) ==
    [f EXCEPT !.output = @ \o f.remaining, !.entered = f.remaining,
              !.at = "return", !.iterations = @ + 1]

\* The partial branch (lines 122-133).  rest holds what line 131 slices
\* remaining to once the call is back.
PartialInclude(stack, f, m, partial) ==
    IF ~Truthy(partial) THEN Go(Replace(stack, Continue(f, Slice(f.remaining, m.length))))
    ELSE render(stack, [f EXCEPT !.rest = Slice(f.remaining, m.length), !.at = "partial"],
                partial, f.context)
PartialBranch(stack, f, m, partials) ==
    PartialInclude(stack, f, m, LookupPartial(partials, m.group))

\* remaining = remaining.slice(match[0].length) and
\* const { body, rest } = findBlockEnd(remaining, kind).
BlockLocals(f, content, blk) ==
    [f EXCEPT !.remaining = content, !.body = blk.body, !.rest = blk.rest,
              !.ifBody = "", !.elseBody = ""]
OpenBlock(f, m, kind) ==
    BlockLocals(f, Slice(f.remaining, m.length),
                findBlockEnd(Slice(f.remaining, m.length), kind))

\* The each branch (lines 136-149).  The callback of arr.map for the element
\* at f.index builds itemContext and calls render on body.
EachItem(stack, f) ==
    render(stack,
           [f EXCEPT !.context = EnclosingContext(f.context, f.arr[f.index + 1], f.index,
                                                  Len(f.arr)),
                     !.at = "each"],
           Str(f.body),
           itemContext(f.context, f.arr[f.index + 1], f.index, Len(f.arr)))
EachBlock(stack, f, arr) ==
    IF arr.t # "array" \/ Len(arr.v) = 0 THEN Go(Replace(stack, Continue(f, f.rest)))
    ELSE EachItem(stack, [f EXCEPT !.arr = arr.v, !.index = 0, !.mapped = ""])
EachBranch(stack, f, m) ==
    EachBlock(stack, OpenBlock(f, m, "each"), resolvePath(f.context, m.group))

\* The if branch (lines 152-176).
IfChoose(val, split) == IF Truthy(val) THEN split.ifBody ELSE split.elseBody
IfRender(stack, f, val, split) ==
    render(stack,
           [f EXCEPT !.ifBody = split.ifBody, !.elseBody = split.elseBody, !.at = "if"],
           Str(IfChoose(val, split)), f.context)
IfBlock(stack, f, val) == IfRender(stack, f, val, SplitElse(f.body))
IfBranch(stack, f, m) ==
    IfBlock(stack, OpenBlock(f, m, "if"), resolvePath(f.context, m.group))

\* The unless branch (lines 179-189).
UnlessBlock(stack, f, val) ==
    IF Truthy(val) THEN Go(Replace(stack, Continue(f, f.rest)))
    ELSE render(stack, [f EXCEPT !.at = "unless"], Str(f.body), f.context)
UnlessBranch(stack, f, m) ==
    UnlessBlock(stack, OpenBlock(f, m, "unless"), resolvePath(f.context, m.group))

\* The variable branch (lines 192-200).
VarOutput(val) == IF val.t # "undefined" /\ val.t # "null" THEN JsString(val) ELSE ""
VarBranch(f, m) ==
    Continue([f EXCEPT !.output = @ \o VarOutput(resolvePath(f.context, m.group))],
             Slice(f.remaining, m.length))

\* The last branch (lines 203-204): the tag is not recognized.
\* A variant of LiteralBranch that moves one character on.
LiteralBranchOne(f) ==
    Continue([f EXCEPT !.output = @ \o "{{"], Slice(f.remaining, UnrecognizedLength - 1))

LiteralBranch(f) ==
    Continue([f EXCEPT !.output = @ \o "{{"], Slice(f.remaining, UnrecognizedLength))

\* Which branch an iteration takes on remaining = template.slice(tagIdx).
Branch(remaining) ==
    CASE PartialMatch(remaining).ok -> "partial"
      [] BlockMatch(remaining, "each").ok -> "each"
      [] BlockMatch(remaining, "if").ok -> "if"
      [] BlockMatch(remaining, "unless").ok -> "unless"
      [] VarMatch(remaining).ok -> "var"
      [] OTHER -> "literal"

\* The branch the next iteration takes on remaining.
NextBranch(remaining0, tagIdx) ==
    IF tagIdx = -1 THEN "text" ELSE Branch(Slice(remaining0, tagIdx))

\* The branch taken by the running call, its frame f at the tag.
Dispatch(branch, stack, f, partials) ==
    CASE branch = "partial" -> PartialBranch(stack, f, PartialMatch(f.remaining), partials)
      [] branch = "each" -> EachBranch(stack, f, BlockMatch(f.remaining, "each"))
      [] branch = "if" -> IfBranch(stack, f, BlockMatch(f.remaining, "if"))
      [] branch = "unless" -> UnlessBranch(stack, f, BlockMatch(f.remaining, "unless"))
      [] branch = "var" -> Go(Replace(stack, VarBranch(f, VarMatch(f.remaining))))
      [] OTHER -> Go(Replace(stack, LiteralBranch(f)))

\* One iteration of the while loop of the running call, entered with
\* remaining not empty, up to the call of render it makes, if any.
Iteration(stack, f, tagIdx, branch, partials) ==
    IF tagIdx = -1 THEN Go(Replace(stack, TextBranch(f)))
    ELSE Dispatch(branch, stack, AtTag(f, tagIdx), partials)

\* The call f made has returned r.  In the each branch r is the callback's
\* result: arr.map goes on to the next element, if there is one, and the
\* results joined are appended otherwise.  In the other branches r itself is
\* appended.  Then remaining = rest and the iteration is over.
Resumed(stack, f, r) ==
    IF f.at # "each" THEN Go(Replace(stack, Continue([f EXCEPT !.output = @ \o r], f.rest)))
    ELSE IF f.index + 1 < Len(f.arr)
    THEN EachItem(stack, [f EXCEPT !.mapped = @ \o r, !.index = @ + 1])
    ELSE Go(Replace(stack, Continue([f EXCEPT !.output = @ \o f.mapped \o r,
                                              !.mapped = @ \o r], f.rest)))

(***************************************************************************)
(* The state: one top-level call render(template, context, partials), as   *)
(* build() makes it for a page, and the calls it makes of itself, stepped  *)
(* one iteration, call or return at a time.  parts is the template as its  *)
(* author composed it, a sequence of fragments (tags, literal text,        *)
(* malformed pieces); template is their concatenation, the text render     *)
(* sees.  context and partials are the objects the top-level call is given;*)
(* stack holds the frames of the calls in progress, the top-level one      *)
(* first.  branch names the branch the last step took ("return" for a      *)
(* return), steps counts the steps of the call, and returned is the log of *)
(* the top-level calls that returned: the template of each and the string  *)
(* it returned.                                                            *)
(*                                                                         *)
(* The class-schedule pager of main.js: weekOffset, the week on display    *)
(* (monday, the day number of its first day), the prefix of the label, the *)
(* disabled flags of the two buttons, and today, the day number the clock  *)
(* shows.                                                                  *)
(***************************************************************************)
VARIABLES parts, template, context, partials, stack, pc, branch, steps, error, returned,
          weekOffset, today, monday, weekLabel, prevDisabled, nextDisabled

renderVars == <<parts, template, context, partials, stack, pc, branch, steps, error, returned>>
pagerVars == <<weekOffset, today, monday, weekLabel, prevDisabled, nextDisabled>>
vars == <<renderVars, pagerVars>>

\* A fragment: a tag (or any piece of template text) and the literal text
\* that follows it.
Fragment(tag, text) == [tag |-> tag, text |-> text]

RECURSIVE Concat(_)
Concat(fragments) ==
    IF Len(fragments) = 0 THEN ""
    ELSE Head(fragments).tag \o Head(fragments).text \o Concat(Tail(fragments))

SeqsUpTo(S, n) == UNION {[1..k -> S] : k \in 0..n}

(***************************************************************************)
(* The inputs: templates, contexts and partial registries.                 *)
(***************************************************************************)
MaxBody == 3
MaxEachBody == 2
MaxItems == 3
MaxSegments == 3
MaxParts == 3

\* The values of the truthiness table, and { v: value } for each; the value
\* undefined is a context without v.
TruthValues ==
    <<Num(0), Str(""), Null, Undefined, Arr(<<>>), Bool(FALSE),
      Num(1), Str("s"), Arr(<<Num(1)>>), Bool(TRUE), Obj([n |-> Num(1)])>>
TruthContext(i) ==
    IF TruthValues[i].t = "undefined" THEN Obj([other |-> Num(1)])
    ELSE Obj([v |-> TruthValues[i]])
TruthTemplates ==
    {<<Fragment("{{#if v}}", "A"), Fragment("{{/if}}", "")>>,
     <<Fragment("{{#if v}}", "A"), Fragment("{{else}}", "B"), Fragment("{{/if}}", "")>>,
     <<Fragment("{{#unless v}}", "A"), Fragment("{{/unless}}", "")>>}

\* A page context with a flag v.
PageContext(flag) ==
    Obj([v |-> Bool(flag), w |-> Bool(TRUE), k |-> Str("K"),
         xs |-> Arr(<<Str("p"), Str("q")>>)])

\* Block templates: an opening tag and a body of fragments, closed or not.
BlockHeads ==
    {Fragment("{{#if v}}", "A"), Fragment("{{#each xs}}", "B"),
     Fragment("{{#unless v}}", "C")}
BodyFragments ==
    {Fragment("{{else}}", "E"), Fragment("{{/if}}", "F"), Fragment("{{#if w}}", "I"),
     Fragment("{{#each xs}}", "H"), Fragment("{{/each}}", "G"), Fragment("{{#x}}", "Y"),
     Fragment("{{#each xs}}{{#if w}}X{{/if}}{{/each}}", "N")}

\* Variable tags over dot paths, and contexts with missing and null values.
PathKeys == {"a", "b", "c", "length"}
RECURSIVE JoinPath(_)
JoinPath(keys) ==
    IF Len(keys) = 1 THEN keys[1] ELSE keys[1] \o "." \o JoinPath(Tail(keys))
PathSeqs == SeqsUpTo(PathKeys, MaxSegments) \ {<<>>}
PathContexts ==
    <<Obj([other |-> Num(1)]),
      Obj([a |-> Null]),
      Obj([a |-> Obj([b |-> Null])]),
      Obj([a |-> Obj([b |-> Obj([c |-> Str("x")])])]),
      Obj([a |-> Obj([b |-> Str("hey")])]),
      Obj([a |-> Obj([c |-> Num(7)])])>>

\* Each templates: bodies of variable tags, over arrays of 0..MaxItems items,
\* in a context that binds the reserved names itself or does not.
EachFragments ==
    {Fragment("{{this}}", ""), Fragment("{{@index}}", ""), Fragment("{{@first}}", ""),
     Fragment("{{@last}}", ""), Fragment("{{k}}", ""), Fragment("", ";")}
Items == <<Str("a"), Str("b"), Str("c"), Str("d"), Str("e")>>
EachContext(n, shadowed) ==
    IF shadowed
    THEN Obj("this" :> Str("T") @@ "@index" :> Num(9) @@ "@first" :> Str("F")
             @@ "@last" :> Str("L")
             @@ [k |-> Str("K"), xs |-> Arr(SubSeq(Items, 1, n))])
    ELSE Obj([k |-> Str("K"), xs |-> Arr(SubSeq(Items, 1, n))])

\* Nested each templates over rows of cells.
Row(n) == Obj([cells |-> Arr(SubSeq(Items, 1, n))])
RowsContext(n) ==
    Obj([k |-> Str("K"), rows |-> Arr([i \in 1..n |-> Row(i)])])

\* Partial registries: none, an acyclic one, and one with a partial that
\* includes itself.
NoPartials == Obj(<<>>)
SitePartials ==
    Obj([p |-> Str("P{{v}}"), q |-> Str("[{{> p}}]"), item |-> Str("{{this}}{{@index}}"),
         e |-> Str("")])
CyclicPartials ==
    Obj([p |-> Str("P{{v}}"), q |-> Str("[{{> p}}]"), item |-> Str("{{this}}{{@index}}"),
         e |-> Str(""), rec |-> Str("r{{> rec}}")])
Registries == <<NoPartials, SitePartials, CyclicPartials>>
PartialNames == {"p", "q", "item", "e", "missing", "constructor", "toString", "rec"}
PartialFragments ==
    {Fragment("{{> " \o name \o "}}", "") : name \in PartialNames}
        \cup {Fragment("{{>q }}", "x")}

\* Anything at all, malformed pieces included.
MixedFragments ==
    {Fragment("", "A"), Fragment("{{", ""), Fragment("{{ v }}", ""), Fragment("}}", ""),
     Fragment("{{v}}", ""), Fragment("{{#if v}}", ""), Fragment("{{/if}}", ""),
     Fragment("{{#each xs}}", "{{this}}"), Fragment("{{> p}}", ""),
     Fragment("{{#unless w}}", "U")}

\* No page of the site is open.
NoPager ==
    /\ weekOffset = 0
    /\ today = 0
    /\ monday = 0
    /\ weekLabel = ""
    /\ prevDisabled = FALSE
    /\ nextDisabled = FALSE

\* The top-level call of render is entered with the template of parts.
Enter ==
    /\ template = Concat(parts)
    /\ stack = <<Activation(template, context)>>
    /\ pc = "loop"
    /\ branch = "start"
    /\ steps = 0
    /\ error = ""

InitTruth ==
    /\ parts \in TruthTemplates
    /\ \E i \in 1..Len(TruthValues) : context = TruthContext(i)
    /\ partials = NoPartials

InitBlock ==
    /\ \E head \in BlockHeads, body \in SeqsUpTo(BodyFragments, MaxBody) :
            parts = <<head>> \o body
    /\ \E flag \in BOOLEAN : context = PageContext(flag)
    /\ partials = NoPartials

InitPath ==
    /\ \E keys \in PathSeqs : parts = <<Fragment("{{" \o JoinPath(keys) \o "}}", "")>>
    /\ \E i \in 1..Len(PathContexts) : context = PathContexts[i]
    /\ partials = NoPartials

InitEach ==
    /\ \E body \in SeqsUpTo(EachFragments, MaxEachBody) :
            parts = <<Fragment("{{#each xs}}", "")>> \o body \o <<Fragment("{{/each}}", "")>>
    /\ \E n \in 0..MaxItems, shadowed \in BOOLEAN : context = EachContext(n, shadowed)
    /\ partials = NoPartials

InitNested ==
    /\ \E pre \in EachFragments, inner \in EachFragments, post \in EachFragments :
            parts = <<Fragment("{{#each rows}}", ""), pre,
                      Fragment("{{#each this.cells}}", ""), inner, Fragment("{{/each}}", ""),
                      post, Fragment("{{/each}}", "")>>
    /\ \E n \in 0..MaxItems : context = RowsContext(n)
    /\ partials = NoPartials

InitPartial ==
    /\ \/ parts \in SeqsUpTo(PartialFragments, 2) \ {<<>>}
       \/ \E f \in PartialFragments :
            parts = <<Fragment("{{#each xs}}", ""), f, Fragment("{{/each}}", "")>>
    /\ \E flag \in BOOLEAN : context = PageContext(flag)
    /\ \E i \in 1..Len(Registries) : partials = Registries[i]

InitMixed ==
    /\ parts \in SeqsUpTo(MixedFragments, MaxParts)
    /\ context = PageContext(TRUE)
    /\ partials = SitePartials

Init ==
    /\ \/ InitTruth
       \/ InitBlock
       \/ InitPath
       \/ InitEach
       \/ InitNested
       \/ InitPartial
       \/ InitMixed
    /\ Enter
    /\ returned = <<>>
    /\ NoPager

(***************************************************************************)
(* The steps of the call.                                                  *)
(***************************************************************************)

\* What a step of branch b that leaves o does to the state.  The context
\* object of the top-level call is the one its frame holds.
Apply(o, b) ==
    /\ stack' = o.stack
    /\ context' = o.stack[1].context
    /\ branch' = b
    /\ steps' = steps + 1
    /\ pc' = IF o.exit = "" THEN "loop" ELSE "threw"
    /\ error' = o.exit
    /\ UNCHANGED <<parts, template, partials, returned>>
    /\ UNCHANGED pagerVars

\* The loop condition of the running call holds and the iteration takes
\* branch b.
Taking(b) ==
    /\ pc = "loop"
    /\ Active(stack).at = "loop"
    /\ Len(Active(stack).remaining) > 0
    /\ NextBranch(Active(stack).remaining, IndexOf(Active(stack).remaining, "{{")) = b

\* What the iteration of branch b of the running call leaves.
Iterated(b) ==
    Iteration(stack, Active(stack), IndexOf(Active(stack).remaining, "{{"), b, partials)

\* One iteration of the while loop of the running call, for each of its
\* branches.
IterateText ==
    /\ Taking("text")
    /\ Apply(Iterated("text"), "text")

IteratePartial ==
    /\ Taking("partial")
    /\ Apply(Iterated("partial"), "partial")

IterateEach ==
    /\ Taking("each")
    /\ Apply(Iterated("each"), "each")

IterateIf ==
    /\ Taking("if")
    /\ Apply(Iterated("if"), "if")

IterateUnless ==
    /\ Taking("unless")
    /\ Apply(Iterated("unless"), "unless")

IterateVar ==
    /\ Taking("var")
    /\ Apply(Iterated("var"), "var")

IterateLiteral ==
    /\ Taking("literal")
    /\ Apply(Iterated("literal"), "literal")

\* The loop of the running call is over: its condition fails, or it broke.
Returning ==
    /\ pc = "loop"
    /\ \/ Active(stack).at = "return"
       \/ Active(stack).at = "loop" /\ Len(Active(stack).remaining) = 0

\* return output, of the top-level call.
Return ==
    /\ Returning
    /\ Len(stack) = 1
    /\ pc' = "done"
    /\ branch' = "return"
    /\ steps' = steps + 1
    /\ returned' = Append(returned, [template |-> template, output |-> stack[1].output])
    /\ UNCHANGED <<parts, template, context, partials, stack, error>>
    /\ UNCHANGED pagerVars

\* return output, of a call render made of itself: the caller goes on.
Resume ==
    /\ Returning
    /\ Len(stack) > 1
    /\ Apply(Resumed(SubSeq(stack, 1, Len(stack) - 1), stack[Len(stack) - 1],
                     Active(stack).output), "return")

Next ==
    \/ IterateText
    \/ IteratePartial
    \/ IterateEach
    \/ IterateIf
    \/ IterateUnless
    \/ IterateVar
    \/ IterateLiteral
    \/ Return
    \/ Resume

Spec == Init /\ [][Next]_vars

\* The call is running.
Running == pc = "loop"

\* A step of the running call as pc and steps show it.  Every step of Next is
\* one.
Step ==
    /\ Running
    /\ pc' \in {"loop", "done", "threw"}
    /\ steps' = steps + 1

\* The call runs on: it is a single thread that nothing suspends.
FairSpec == Spec /\ WF_<<pc, steps>>(Step)

(***************************************************************************)
(* Several calls of render, one after another, with one context object and *)
(* one partial registry: build() renders every page of the site with the   *)
(* same registry and the same data objects.                                *)
(***************************************************************************)
MaxCalls == 3

CallTemplates ==
    {<<Fragment("{{#each xs}}", "{{this}}{{/each}}")>>,
     <<Fragment("{{this}}", ".")>>,
     <<Fragment("{{#if v}}", "A{{/if}}")>>,
     <<Fragment("{{#unless v}}", "B{{/unless}}")>>,
     <<Fragment("{{> item}}", "")>>,
     <<Fragment("{{", "x")>>,
     <<Fragment("", "t")>>}

InitCalls ==
    /\ parts \in CallTemplates
    /\ \E flag \in BOOLEAN : context = PageContext(flag)
    /\ partials = SitePartials
    /\ Enter
    /\ returned = <<>>
    /\ NoPager

\* The call is over, by a return or by a throw, and the next one is made.
Call ==
    /\ pc \in {"done", "threw"}
    /\ Len(returned) < MaxCalls
    /\ parts' \in CallTemplates
    /\ template' = Concat(parts')
    /\ stack' = <<Activation(template', context)>>
    /\ pc' = "loop"
    /\ branch' = "start"
    /\ steps' = 0
    /\ error' = ""
    /\ UNCHANGED <<context, partials, returned>>
    /\ UNCHANGED pagerVars

NextCalls ==
    \/ IterateText
    \/ IteratePartial
    \/ IterateEach
    \/ IterateIf
    \/ IterateUnless
    \/ IterateVar
    \/ IterateLiteral
    \/ Return
    \/ Resume
    \/ Call

SpecCalls == InitCalls /\ [][NextCalls]_vars

(***************************************************************************)
(* The class-schedule pager.  Days are numbered from a Sunday, so that     *)
(* getDay() of day d is d % 7.                                             *)
(***************************************************************************)
MaxDay == 13

maxWeeks == 8

getDay(d) == d % 7

getMonday(d) == d + (IF getDay(d) = 0 THEN -6 ELSE 1 - getDay(d))

\* The prefix renderWeek puts before the dates of the label.
LabelPrefix(offset) ==
    IF offset = 0 THEN "This Week" ELSE IF offset = 1 THEN "Next Week" ELSE ""

renderWeek(offset) ==
    /\ weekOffset' = offset
    /\ monday' = getMonday(today) + offset * 7
    /\ weekLabel' = LabelPrefix(offset)
    /\ prevDisabled' = (offset <= 0)
    /\ nextDisabled' = (offset >= maxWeeks - 1)

\* The conditions of the two click handlers.
PrevGuard(offset) == offset > 0
\* A variant of NextGuard that lets the last week through.
NextGuardInclusive(offset) == offset <= maxWeeks - 1
NextGuard(offset) == offset < maxWeeks - 1

NoRender ==
    /\ parts = <<>>
    /\ context = Obj(<<>>)
    /\ partials = Obj(<<>>)
    /\ Enter
    /\ returned = <<>>

\* The page has loaded: weekOffset = 0 and renderWeek(0) has run.
InitPager ==
    /\ today \in 0..6
    /\ weekOffset = 0
    /\ monday = getMonday(today)
    /\ weekLabel = LabelPrefix(0)
    /\ prevDisabled = (0 <= 0)
    /\ nextDisabled = (0 >= maxWeeks - 1)
    /\ NoRender

ClickPrev ==
    /\ IF PrevGuard(weekOffset) THEN renderWeek(weekOffset - 1)
       ELSE UNCHANGED <<weekOffset, monday, weekLabel, prevDisabled, nextDisabled>>
    /\ UNCHANGED today
    /\ UNCHANGED renderVars

ClickNext ==
    /\ IF NextGuard(weekOffset) THEN renderWeek(weekOffset + 1)
       ELSE UNCHANGED <<weekOffset, monday, weekLabel, prevDisabled, nextDisabled>>
    /\ UNCHANGED today
    /\ UNCHANGED renderVars

\* Midnight passes while the page is open.
Tick ==
    /\ today < MaxDay
    /\ today' = today + 1
    /\ UNCHANGED <<weekOffset, monday, weekLabel, prevDisabled, nextDisabled>>
    /\ UNCHANGED renderVars

NextPager ==
    \/ ClickPrev
    \/ ClickNext
    \/ Tick

SpecPager == InitPager /\ [][NextPager]_vars


(***************************************************************************)
(* The templates read fragment by fragment.  Every tag of the inputs is    *)
(* one fragment, so the structure the renderer has to find in the text can *)
(* be read off parts without scanning a character.                         *)
(***************************************************************************)
OpeningTags ==
    {"{{#if v}}", "{{#if w}}", "{{#each xs}}", "{{#each rows}}", "{{#each this.cells}}",
     "{{#unless v}}", "{{#unless w}}"}
ClosingTags == {"{{/if}}", "{{/each}}", "{{/unless}}"}

\* What a fragment does to the nesting depth.
Delta(f) ==
    IF f.tag \in OpeningTags THEN 1 ELSE IF f.tag \in ClosingTags THEN -1 ELSE 0

\* The depth after the first j fragments of fs, from the depth start.
RECURSIVE DepthAt(_, _, _)
DepthAt(fs, j, start) ==
    IF j = 0 THEN start ELSE DepthAt(fs, j - 1, start) + Delta(fs[j])

\* The fragment of fs whose closing tag first brings the depth from 1 to 0; 0
\* when there is none.
ClosingFragment(fs) ==
    LET closing == {j \in 1..Len(fs) : DepthAt(fs, j, 1) = 0}
    IN  IF closing = {} THEN 0 ELSE Least(closing)

\* The fragments of the body of the block that fs continues.
BodyOf(fs) ==
    IF ClosingFragment(fs) = 0 THEN fs ELSE SubSeq(fs, 1, ClosingFragment(fs) - 1)

\* The first {{else}} of the body fragments at depth zero of the body; 0 when
\* there is none.
ElseFragment(body) ==
    LET elses == {k \in 1..Len(body) :
                    body[k].tag = "{{else}}" /\ DepthAt(body, k - 1, 0) = 0}
    IN  IF elses = {} THEN 0 ELSE Least(elses)


\* The frame of the top-level call.
Outer == stack[1]

\* The top-level call is inside its first iteration, in the call of render
\* the iteration makes; it has completed its first iteration and not begun
\* the second.
InFirst == Outer.iterations = 0 /\ Outer.at \notin {"loop", "return"}
FirstDone == Outer.iterations = 1 /\ Outer.at \in {"loop", "return"}

\* The template opens with a block tag and the first iteration has handled it.
BlockHandled ==
    /\ Len(parts) > 0
    /\ Head(parts).tag \in OpeningTags
    /\ InFirst \/ FirstDone

\* The text after the opening tag of the first fragment.
Content == Head(parts).text \o Concat(Tail(parts))

\* The opening tags less the closing tags in s.
Imbalance(s) ==
    Cardinality({i \in 0..(Len(s) - 1) : OpenAt(s, i, "if") > 0})
        - Cardinality({i \in 0..(Len(s) - 1) : CloseAt(s, i, "if") > 0})

(***************************************************************************)
(* C1.  The truthiness table.                                              *)
(***************************************************************************)
\* {{#if v}}A{{/if}} has been rendered.
TruthRendered ==
    /\ parts = <<Fragment("{{#if v}}", "A"), Fragment("{{/if}}", "")>>
    /\ pc = "done"

\* What v resolves to.
Resolved == IF "v" \in DOMAIN context.v THEN context.v["v"] ELSE Undefined

\* 0, "", null, undefined and false.
FalsyScalar(val) ==
    \/ val.t \in {"null", "undefined"}
    \/ val.t = "number" /\ val.v = 0
    \/ val.t = "string" /\ val.v = ""
    \/ val.t = "boolean" /\ val.v = FALSE

EmptySequence(val) == val.t = "array" /\ val.v = <<>>

\* C1 as stated: {{#if v}}A{{/if}} renders "" when v resolves to 0, "", null,
\* undefined, the empty sequence or false, and "A" when it resolves to 1, a
\* non-empty string, a non-empty sequence, true or a non-empty mapping.
C1_TableAsStated ==
    TruthRendered =>
        Outer.output = IF FalsyScalar(Resolved) \/ EmptySequence(Resolved) THEN "" ELSE "A"

\* C1, amended: {{#if v}}A{{/if}} renders "" when v resolves to 0, "", null,
\* undefined or false, and "A" when it resolves to 1, a non-empty string, a
\* sequence (empty or not), true or a mapping; an empty sequence selects the
\* true-branch.
C1_Table ==
    TruthRendered =>
        /\ FalsyScalar(Resolved) => Outer.output = ""
        /\ ~FalsyScalar(Resolved) => Outer.output = "A"
        /\ EmptySequence(Resolved) => Outer.output = "A"

\* The block has been rendered with v an empty sequence.
C1_Witness == TruthRendered /\ EmptySequence(Resolved) /\ Outer.output = "A"

(***************************************************************************)
(* C2.  The split of an if body at {{else}}.                               *)
(***************************************************************************)
\* The texts before and after the fragment k of fs; all of fs and nothing when
\* k = 0.
Before(headText, fs, k) ==
    headText \o Concat(IF k = 0 THEN fs ELSE SubSeq(fs, 1, k - 1))
After(fs, k) ==
    IF k = 0 THEN "" ELSE fs[k].text \o Concat(SubSeq(fs, k + 1, Len(fs)))

\* C2 as stated: the body of an if block is split at the first {{else}} at
\* depth zero, where only opening tags of the kinds each, if and unless raise
\* the depth and only their closing tags lower it, and the true-branch is
\* rendered when the value is truthy and the else-branch otherwise.
C2_ElseAtDepthZero ==
    (BlockHandled /\ Head(parts).tag \in {"{{#if v}}", "{{#if w}}"}
            /\ partials = NoPartials) =>
        LET body == BodyOf(Tail(parts))
            k == ElseFragment(body)
        IN  /\ Outer.ifBody = Before(Head(parts).text, body, k)
            /\ Outer.elseBody = After(body, k)

(***************************************************************************)
(* C3.  findBlockEnd finds the closing tag of the block.                   *)
(***************************************************************************)
\* C3: when a closing tag brings the depth, 1 at the start and moved by the
\* tags of all three kinds, to 0, body is the text before the first such tag
\* and rest the text after it, body + tag + rest is content, the tags in
\* body are balanced, and the loop goes on with rest.
C3_BlockEnd ==
    (BlockHandled /\ pc # "threw" /\ ClosingFragment(Tail(parts)) > 0) =>
        LET fs == Tail(parts)
            j == ClosingFragment(fs)
        IN  /\ Outer.body = Before(Head(parts).text, fs, j)
            /\ Outer.rest = After(fs, j)
            /\ Outer.body \o fs[j].tag \o Outer.rest = Content
            /\ Imbalance(Outer.body) = 0
            /\ FirstDone => Outer.remaining = Outer.rest

\* A block that holds a nested block and is closed by a tag of another kind
\* has been handled.
C3_Witness ==
    /\ BlockHandled
    /\ FirstDone
    /\ pc # "threw"
    /\ ClosingFragment(Tail(parts)) = 3
    /\ Head(parts).tag = "{{#if v}}"
    /\ Tail(parts)[3].tag = "{{/each}}"
    /\ Outer.body = "A{{#if w}}I{{/if}}F"

(***************************************************************************)
(* C4.  Unterminated blocks.                                               *)
(***************************************************************************)
\* C4: when no closing tag brings the depth to 0, findBlockEnd gives the whole
\* content as body and "" as rest, and render does not throw: the block is
\* the last thing it renders.
C4_Unterminated ==
    (BlockHandled /\ ClosingFragment(Tail(parts)) = 0) =>
        /\ pc # "threw"
        /\ Outer.body = Content
        /\ Outer.rest = ""
        /\ FirstDone => Outer.remaining = ""

\* An unterminated block that holds a terminated one has been rendered.
C4_Witness ==
    /\ BlockHandled
    /\ ClosingFragment(Tail(parts)) = 0
    /\ Len(parts) = 3
    /\ parts[2].tag \in OpeningTags
    /\ parts[3].tag \in ClosingTags
    /\ pc = "done"
    /\ Outer.output # ""

(***************************************************************************)
(* C5.  Paths through missing values.                                      *)
(***************************************************************************)
\* val[key] for a key that val itself holds; undefined otherwise.
Own(val, key) ==
    IF val.t = "object" /\ key \in DOMAIN val.v THEN val.v[key]
    ELSE IF val.t \in {"string", "array"} /\ key = "length" THEN Num(Len(val.v))
    ELSE Undefined

RECURSIVE Walk(_, _)
Walk(val, keys) == IF keys = <<>> THEN val ELSE Walk(Own(val, Head(keys)), Tail(keys))

\* Some value before the last on the path is null or undefined.
HitsMissing(val, keys) ==
    \E j \in 1..(Len(keys) - 1) : Walk(val, SubSeq(keys, 1, j)).t \in {"null", "undefined"}

\* C5 as stated: resolvePath never fails, and a variable tag whose path runs
\* through a null or undefined value renders as the empty string, whatever
\* segments follow.
C5_ShortCircuit ==
    \A keys \in PathSeqs :
        (parts = <<Fragment("{{" \o JoinPath(keys) \o "}}", "")>> /\ steps > 0) =>
            /\ pc # "threw"
            /\ HitsMissing(context, keys) => Outer.output = ""


(***************************************************************************)
(* C6.  Each blocks.                                                       *)
(***************************************************************************)
\* What a value prints as in the each templates: the items are strings and the
\* rows are objects.
ItemText(item) == IF item.t = "string" THEN item.v ELSE "[object Object]"

\* What the fragment f of an each body renders as for the item at index i of
\* n, k being bound to "K" in the enclosing context.
FragmentText(f, item, i, n) ==
    (CASE f.tag = "{{this}}" -> ItemText(item)
       [] f.tag = "{{@index}}" -> IntToString(i)
       [] f.tag = "{{@first}}" -> (IF i = 0 THEN "true" ELSE "false")
       [] f.tag = "{{@last}}" -> (IF i = n - 1 THEN "true" ELSE "false")
       [] f.tag = "{{k}}" -> "K"
       [] OTHER -> "") \o f.text

RECURSIVE BodyText(_, _, _, _)
BodyText(body, item, i, n) ==
    IF body = <<>> THEN ""
    ELSE FragmentText(Head(body), item, i, n) \o BodyText(Tail(body), item, i, n)

\* The renderings of body for the items from index i up to index j, in order.
RECURSIVE EachText(_, _, _, _)
EachText(body, items, i, j) ==
    IF i >= j THEN ""
    ELSE BodyText(body, items[i + 1], i, Len(items)) \o EachText(body, items, i + 1, j)

\* The renderings of the rows from index i on: pre and post see the row, and
\* inner, between them, the cells of the row.
RECURSIVE RowsText(_, _, _, _, _)
RowsText(pre, inner, post, rows, i) ==
    IF i >= Len(rows) THEN ""
    ELSE FragmentText(pre, rows[i + 1], i, Len(rows))
            \o EachText(<<inner>>, rows[i + 1].v.cells.v, 0, Len(rows[i + 1].v.cells.v))
            \o FragmentText(post, rows[i + 1], i, Len(rows))
            \o RowsText(pre, inner, post, rows, i + 1)

\* The template is an each block over xs with a body of EachFragments.
EachTemplate ==
    /\ Len(parts) >= 2
    /\ parts[1] = Fragment("{{#each xs}}", "")
    /\ parts[Len(parts)] = Fragment("{{/each}}", "")
    /\ \A j \in 2..(Len(parts) - 1) : parts[j] \in EachFragments

\* The template is an each block over rows that holds one over this.cells.
NestedTemplate == Len(parts) = 7 /\ parts[1].tag = "{{#each rows}}"

\* C6: an each block over n elements renders its body n times, in element
\* order, the i-th time with this = element i, @index = i, @first true exactly
\* when i = 0, @last true exactly when i = n - 1 and the other bindings of the
\* enclosing context as they are; nested, the inner values shadow the outer
\* ones inside the inner body only.
C6_Each ==
    /\ EachTemplate =>
            /\ pc # "threw"
            /\ Outer.at = "each" =>
                    Outer.mapped = EachText(SubSeq(parts, 2, Len(parts) - 1),
                                            context.v.xs.v, 0, Outer.index)
            /\ pc = "done" =>
                    Outer.output = EachText(SubSeq(parts, 2, Len(parts) - 1),
                                            context.v.xs.v, 0, Len(context.v.xs.v))
    /\ NestedTemplate =>
            /\ pc # "threw"
            /\ pc = "done" =>
                    Outer.output = RowsText(parts[2], parts[4], parts[6],
                                            context.v.rows.v, 0)

\* Rows of one, two and three cells have been rendered with @last before the
\* inner block, @index in it and @index after it.
C6_Witness ==
    /\ NestedTemplate
    /\ pc = "done"
    /\ parts[2].tag = "{{@last}}"
    /\ parts[4].tag = "{{@index}}"
    /\ parts[6].tag = "{{@index}}"
    /\ Outer.output = "false00false011true0122"

(***************************************************************************)
(* C7.  Partial references.                                                *)
(***************************************************************************)
\* What render returns for the partial name of the registries, called with
\* the context of the page.
PartialText(name) ==
    CASE name = "p" -> "P" \o JsString(context.v.v)
      [] name = "q" -> "[P" \o JsString(context.v.v) \o "]"
      [] OTHER -> ""

\* C7 as stated: for {{> name}} with name in the registry render appends
\* render(partials[name], context, partials), with name absent it appends
\* nothing, and in both cases it goes on with the text after the tag.
C7_Partial ==
    \A name \in PartialNames :
        (Len(parts) > 0 /\ parts[1] = Fragment("{{> " \o name \o "}}", "")
                /\ (InFirst \/ FirstDone)) =>
            IF name \in DOMAIN partials.v
            THEN FirstDone =>
                    /\ Outer.output = PartialText(name)
                    /\ Outer.remaining = Concat(Tail(parts))
            ELSE /\ pc # "threw"
                 /\ Outer.output = ""
                 /\ FirstDone => Outer.remaining = Concat(Tail(parts))

(***************************************************************************)
(* C9.  Termination.                                                       *)
(***************************************************************************)
\* Every iteration of the loop of findBlockEnd from (depth, pos) on moves pos
\* forward.
RECURSIVE ScanAdvances(_, _, _, _)
ScanMoved(content, tag, pos, it) ==
    it.exit = "continue" => (it.pos > pos /\ ScanAdvances(content, tag, it.depth, it.pos))
ScanAdvances(content, tag, depth, pos) ==
    (depth > 0 /\ pos < Len(content)) =>
        ScanMoved(content, tag, pos, ScanIteration(content, tag, depth, pos))

\* The text findBlockEnd is given by an iteration that handles a block.
Scanned(text, kind) ==
    Slice(text, IndexOf(text, "{{") + BlockMatch(Slice(text, IndexOf(text, "{{")), kind).length)

\* The calls in progress both before and after the step: all of them, but
\* for the running one when it returns.
Kept == 1..(IF branch' = "return" THEN Len(stack) - 1 ELSE Len(stack))

\* remaining never grows, and a call that completes an iteration and goes on
\* has a remaining shorter than the iteration found; an iteration that meets
\* an unrecognized {{ emits it and drops it and nothing more.
Shortens ==
    /\ \A k \in Kept :
            /\ Len(stack'[k].remaining) <= Len(stack[k].remaining)
            /\ (stack'[k].iterations = stack[k].iterations + 1 /\ stack'[k].at = "loop") =>
                    Len(stack'[k].remaining) < Len(stack'[k].entered)
    /\ (steps' = steps + 1 /\ branch' = "literal") =>
            /\ Len(Active(stack').remaining) =
                    Len(Active(stack).remaining) - IndexOf(Active(stack).remaining, "{{") - 2
            /\ Active(stack').output =
                    Active(stack).output
                        \o SliceTo(Active(stack).remaining, 0,
                                   IndexOf(Active(stack).remaining, "{{"))
                        \o "{{"

\* An iteration that handles a block scans it with pos moving forward, and a
\* call of render made for a block is given a body shorter than the text the
\* iteration found.
Descends ==
    /\ (steps' = steps + 1 /\ branch' \in {"each", "if", "unless"}) =>
            ScanAdvances(Scanned(Active(stack).remaining, branch'), branch', 1, 0)
    /\ (steps' = steps + 1 /\ Len(stack') = Len(stack) + 1
            /\ stack'[Len(stack)].at \in {"each", "if", "unless"}) =>
            /\ Len(Active(stack').remaining) < Len(stack'[Len(stack)].entered)
            /\ Len(stack'[Len(stack)].body) < Len(stack'[Len(stack)].entered)
            /\ Len(stack'[Len(stack)].ifBody) < Len(stack'[Len(stack)].entered)
            /\ Len(stack'[Len(stack)].elseBody) < Len(stack'[Len(stack)].entered)

\* The branches of an iteration.
Branches == {"text", "partial", "each", "if", "unless", "var", "literal"}

\* The running call is at the head of its loop or past it, and at the head
\* with text left it has a branch to take.
CanStep ==
    /\ Active(stack).at \in {"loop", "return"}
    /\ (Active(stack).at = "loop" /\ Len(Active(stack).remaining) > 0) =>
            NextBranch(Active(stack).remaining, IndexOf(Active(stack).remaining, "{{"))
                \in Branches

\* The registry has a partial that includes itself.
Cyclic == partials = CyclicPartials

\* The template runs into the partial that includes itself.
MeetsCycle == Len(parts) > 0 /\ parts[1].tag = "{{> rec}}" /\ Cyclic

\* C9: every iteration of the loop of render shortens remaining, an
\* unrecognized {{ costing exactly two characters; every iteration of the loop
\* of findBlockEnd moves pos forward; the bodies render recurses on are
\* shorter than the text; so the call ends, and by a stack overflow only when
\* the registry has a cycle, as it does when a partial that includes itself is
\* met.
C9_Terminates ==
    /\ [][Shortens /\ Descends]_vars
    /\ [](Running => CanStep)
    /\ [](Len(stack) <= MaxCallDepth)
    /\ [](error = "RangeError" => Cyclic)
    /\ []((MeetsCycle /\ ~Running) => error = "RangeError")
    /\ <>(pc \in {"done", "threw"})

\* A call has ended in three iterations: an unrecognized {{, a variable and
\* the text after it.
C9_Witness ==
    /\ pc = "done"
    /\ Outer.iterations = 3
    /\ branch = "return"
    /\ parts[1].tag = "{{"
    /\ parts[2].tag = "{{v}}"
    /\ Outer.output = "{{trueA"
    /\ ~Cyclic

(***************************************************************************)
(* C8.  Purity.                                                            *)
(***************************************************************************)
\* No step of a call writes to the context or to the registry.
Preserves == context' = context /\ partials' = partials

\* Calls with the same template returned the same string.
Deterministic ==
    \A i, j \in 1..Len(returned) :
        returned[i].template = returned[j].template => returned[i].output = returned[j].output

\* C8: a call of render leaves the context and the partial registry as they
\* were, and two calls with the same template, context and registry return the
\* same string, whatever calls are made between them.
C8_Pure == [][Preserves]_vars /\ []Deterministic

\* {{this}}. has been rendered before and after the each block.
C8_Witness ==
    /\ Len(returned) = 3
    /\ returned[1].template = "{{this}}."
    /\ returned[2].output = "pq"
    /\ returned[3].template = "{{this}}."

(***************************************************************************)
(* C10.  The pager.                                                        *)
(***************************************************************************)
\* The week on display and what the page shows of it.
Displayed == <<weekOffset, monday, weekLabel, prevDisabled, nextDisabled>>

PagerBounds ==
    /\ weekOffset \in 0..7
    /\ weekOffset <= maxWeeks - 1
    /\ prevDisabled <=> weekOffset = 0
    /\ nextDisabled <=> weekOffset = 7

Clicks ==
    /\ (ClickPrev /\ weekOffset = 0) => UNCHANGED Displayed
    /\ (ClickNext /\ weekOffset = 7) => UNCHANGED Displayed
    /\ (ClickPrev /\ weekOffset # 0) => weekOffset' = weekOffset - 1
    /\ (ClickNext /\ weekOffset # 7) => weekOffset' = weekOffset + 1

\* C10: once the page has loaded, weekOffset is in 0..7 whatever is clicked,
\* the previous button is disabled exactly at 0 and the next button exactly at
\* 7, a previous click at 0 and a next click at 7 change neither weekOffset
\* nor the week on display, and any other click moves weekOffset by one.
C10_Pager == []PagerBounds /\ [][Clicks]_vars

\* The last week is on display a week after the page was opened.
C10_Witness ==
    /\ weekOffset = 7
    /\ nextDisabled
    /\ ~prevDisabled
    /\ today >= 7
    /\ monday = getMonday(today) + 6 * 7

====
